---- MODULE Spec2Model ----
(***************************************************************************)
(* Model of scripts/fetch_and_insert_games.py: the review ingestion        *)
(* pipeline (cache-backed fetch, tolerant validation, text normalisation,  *)
(* the logging completion wrapper and the driver loop of main).            *)
(*                                                                         *)
(* JSON values are records [t, s, n, l]: t is the JSON type ("null",       *)
(* "int", "float", "str", "list", or "missing" for an absent key), s the   *)
(* string, n a number in tenths (87.9 is n = 879) and l a list of strings. *)
(* A file or a rendered text is a sequence of tokens [t, s, n].            *)
(***************************************************************************)
EXTENDS Integers, Sequences, FiniteSets, TLC

(* ------------------------------ bounds -------------------------------- *)
MaxIds == 2          \* longest list of game ids given to one run
MaxBatch == 11       \* longest payload given to the validator on its own
MaxMixed == 2        \* longest payload of mixed record shapes given to the validator

(* --------------------------- JSON values ------------------------------ *)
JNull == [t |-> "null", s |-> "", n |-> 0, l |-> <<>>]
JMissing == [t |-> "missing", s |-> "", n |-> 0, l |-> <<>>]
JStr(str) == [t |-> "str", s |-> str, n |-> 0, l |-> <<>>]
JInt(i) == [t |-> "int", s |-> "", n |-> 10 * i, l |-> <<>>]
JFloat(tenths) == [t |-> "float", s |-> "", n |-> tenths, l |-> <<>>]
JList(names) == [t |-> "list", s |-> "", n |-> 0, l |-> names]

Tok(type, str, num) == [t |-> type, s |-> str, n |-> num]

\* the keys of a review object, in the order the remote source sends them
Keys == <<"game", "title", "Outlet", "Authors", "publishedDate", "Platforms",
          "score", "npScore", "scoreDisplay", "snippet", "externalUrl">>

KeySet == {Keys[i] : i \in 1..Len(Keys)}

(* ------------------ json.dump / json.load (the cache file) ------------ *)
\* a JSON value as the tokens json.dump writes for it
EncodeValue(v) ==
    IF v.t = "list"
    THEN <<Tok("[", "", 0)>> \o [i \in 1..Len(v.l) |-> Tok("str", v.l[i], 0)]
                             \o <<Tok("]", "", 0)>>
    ELSE <<Tok(v.t, v.s, v.n)>>

RECURSIVE EncodeFields(_, _)
EncodeFields(r, i) ==
    IF i > Len(Keys) THEN <<>>
    ELSE (IF r[Keys[i]].t = "missing" THEN <<>>
          ELSE <<Tok("key", Keys[i], 0)>> \o EncodeValue(r[Keys[i]]))
         \o EncodeFields(r, i + 1)

EncodeObject(r) == <<Tok("{", "", 0)>> \o EncodeFields(r, 1) \o <<Tok("}", "", 0)>>

RECURSIVE EncodeObjects(_, _)
EncodeObjects(data, i) ==
    IF i > Len(data) THEN <<>> ELSE EncodeObject(data[i]) \o EncodeObjects(data, i + 1)

\* a variant that writes every number in its integer form
json_dump_ints(data) ==
    LET AsInt(tok) == IF tok.t = "float" THEN Tok("int", "", 10 * (tok.n \div 10)) ELSE tok
        toks == <<Tok("[", "", 0)>> \o EncodeObjects(data, 1) \o <<Tok("]", "", 0)>>
    IN  [i \in 1..Len(toks) |-> AsInt(toks[i])]

\* json.dump(data, f): the payload as the text of the cache file
json_dump(data) == <<Tok("[", "", 0)>> \o EncodeObjects(data, 1) \o <<Tok("]", "", 0)>>

RECURSIVE ParseStrings(_, _, _)
ParseStrings(toks, p, acc) ==
    IF toks[p].t = "]" THEN [v |-> JList(acc), p |-> p + 1]
    ELSE ParseStrings(toks, p + 1, Append(acc, toks[p].s))

ParseValue(toks, p) ==
    IF toks[p].t = "[" THEN ParseStrings(toks, p + 1, <<>>)
    ELSE [v |-> [t |-> toks[p].t, s |-> toks[p].s, n |-> toks[p].n, l |-> <<>>], p |-> p + 1]

RECURSIVE ParseFields(_, _, _)
ParseFields(toks, p, acc) ==
    IF toks[p].t = "}" THEN [v |-> acc, p |-> p + 1]
    ELSE LET val == ParseValue(toks, p + 1)
         IN  ParseFields(toks, val.p, [acc EXCEPT ![toks[p].s] = val.v])

RECURSIVE ParseObjects(_, _, _)
ParseObjects(toks, p, acc) ==
    IF toks[p].t = "]" THEN acc
    ELSE LET obj == ParseFields(toks, p + 1, [k \in KeySet |-> JMissing])
         IN  ParseObjects(toks, obj.p, Append(acc, obj.v))

\* json.load(f): the payload parsed back from the text of the cache file
json_load(toks) == ParseObjects(toks, 2, <<>>)

(* ------------- len(data) * 0.1 in IEEE-754 double arithmetic ---------- *)
\* A double is held as a fixed-point binary number: bit i of a BigWidth-bit
\* word weighs 2^(i - TenthExp), so bit TenthExp is the units bit.
BigWidth == 64
DoubleBits == 53     \* significand bits of a double
TenthExp == 56       \* the double 0.1 is 0x1999999999999A * 2^-56
TenthHex == <<1, 9, 9, 9, 9, 9, 9, 9, 9, 9, 9, 9, 9, 10>>
BigIdx == 0..(BigWidth - 1)

TenthBit(i) == IF i >= TenthExp THEN 0
               ELSE (TenthHex[Len(TenthHex) - (i \div 4)] \div (2 ^ (i % 4))) % 2

\* the exact product n * 0.1 (n a small natural number)
BigMulTenth(n) ==
    LET c[i \in 0..BigWidth] ==
            IF i = 0 THEN 0 ELSE (n * TenthBit(i - 1) + c[i - 1]) \div 2
    IN  [i \in BigIdx |-> (n * TenthBit(i) + c[i]) % 2]

BitLen(b) == IF \A i \in BigIdx : b[i] = 0 THEN 0
             ELSE 1 + CHOOSE i \in BigIdx : b[i] = 1 /\ \A j \in BigIdx : j > i => b[j] = 0

\* b + 2^s
BigAddBit(b, s) ==
    LET c[i \in 0..BigWidth] ==
            IF i <= s THEN (IF i = s THEN 1 ELSE 0) ELSE (b[i - 1] + c[i - 1]) \div 2
    IN  [i \in BigIdx |-> (b[i] + c[i]) % 2]

\* round to nearest, ties to even, keeping DoubleBits significant bits
RoundToDouble(b) ==
    LET s == BitLen(b) - DoubleBits
    IN  IF s <= 0 THEN b
        ELSE LET kept == [i \in BigIdx |-> IF i < s THEN 0 ELSE b[i]]
                 up == b[s - 1] = 1 /\ ((\E i \in 0..(s - 2) : b[i] = 1) \/ b[s] = 1)
             IN  IF up THEN BigAddBit(kept, s) ELSE kept

\* bit i of the integer e as a double
IntBit(e, i) == IF i < TenthExp THEN 0 ELSE (e \div (2 ^ (i - TenthExp))) % 2

\* n * 0.1 as the double the multiplication yields, for every payload length
\* of the model (computed once)
LongestPayload == IF MaxBatch >= MaxMixed THEN MaxBatch ELSE MaxMixed
TimesTenth == [n \in 0..LongestPayload |-> RoundToDouble(BigMulTenth(n))]

\* a threshold test that also rejects a batch sitting exactly on the limit
TooManyErrors_strict(error_count, n) ==
    ~(\E i \in BigIdx : /\ IntBit(error_count, i) = 0
                        /\ TimesTenth[n][i] = 1
                        /\ \A j \in (i + 1)..(BigWidth - 1) :
                              TimesTenth[n][j] = IntBit(error_count, j))

\* error_count > len(data) * 0.1
TooManyErrors(error_count, n) ==
    \E i \in BigIdx : /\ IntBit(error_count, i) = 1
                      /\ TimesTenth[n][i] = 0
                      /\ \A j \in (i + 1)..(BigWidth - 1) :
                            IntBit(error_count, j) = TimesTenth[n][j]

(* ----------------- GameReview.model_validate (pydantic) --------------- *)
PyNone == Tok("None", "", 0)
PyStr(str) == Tok("str", str, 0)
PyInt(i) == Tok("int", "", i)
PyFloat(tenths) == Tok("float", "", tenths)

\* the timestamps datetime parsing accepts, as <<YYYYMMDD, time of day>>
ParseDatetime(str) ==
    CASE str = "2023-08-03T04:00:00.000Z" -> [ok |-> TRUE, ymd |-> 20230803, time |-> "04:00:00Z"]
      [] str = "2020-09-17T23:30:00.000Z" -> [ok |-> TRUE, ymd |-> 20200917, time |-> "23:30:00Z"]
      [] OTHER -> [ok |-> FALSE, ymd |-> 0, time |-> ""]

\* int(x) of a float held in tenths: truncation toward zero
Trunc(tenths) == IF tenths >= 0 THEN tenths \div 10 ELSE -((-tenths) \div 10)

\* the field declarations of GameReview, lax mode: which raw values type.
\* Nested objects are held by the one member the pipeline reads (game.name,
\* Outlet.name, ScoreFormat.scoreDisplay, the names of Authors and Platforms).
FieldsOk(r) ==
    /\ r["game"].t = "str"
    /\ r["Outlet"].t = "str"
    /\ r["scoreDisplay"].t \in {"str", "null"}                 \* Optional[str], no default
    /\ r["title"].t \in {"str", "null", "missing"}             \* Optional[str] = None
    /\ r["snippet"].t \in {"str", "null", "missing"}           \* Optional[str] = None
    /\ r["externalUrl"].t = "str"
    /\ r["publishedDate"].t = "str" /\ ParseDatetime(r["publishedDate"].s).ok
    /\ r["score"].t \in {"int", "float", "null", "missing"}    \* Optional[float] = None
    /\ \/ r["npScore"].t \in {"int", "null"}                   \* Optional[int], no default
       \/ r["npScore"].t = "float" /\ r["npScore"].n % 10 = 0  \* a float without a fraction
    /\ r["Authors"].t = "list"
    /\ r["Platforms"].t = "list"

OptStr(v) == IF v.t = "str" THEN PyStr(v.s) ELSE PyNone

\* the typed fields, before the model validator runs
Typed(r) ==
    [game |-> PyStr(r["game"].s),
     title |-> OptStr(r["title"]),
     Outlet |-> PyStr(r["Outlet"].s),
     Authors |-> r["Authors"].l,
     publishedDate |-> Tok("datetime", ParseDatetime(r["publishedDate"].s).time,
                           ParseDatetime(r["publishedDate"].s).ymd),
     Platforms |-> r["Platforms"].l,
     score |-> IF r["score"].t \in {"int", "float"} THEN PyFloat(r["score"].n) ELSE PyNone,
     npScore |-> IF r["npScore"].t = "null" THEN PyNone ELSE PyInt(r["npScore"].n \div 10),
     scoreDisplay |-> OptStr(r["scoreDisplay"]),
     snippet |-> OptStr(r["snippet"]),
     externalUrl |-> PyStr(r["externalUrl"].s)]

\* @model_validator(mode='after')
convert_float_scores(self) ==
    [self EXCEPT !.score = IF @.t = "float" THEN PyInt(Trunc(@.n)) ELSE @,
                 !.npScore = IF @.t = "float" THEN PyInt(Trunc(@.n)) ELSE @]

\* GameReview.model_validate(review_data): ok = FALSE is the raised ValidationError
model_validate(review_data) ==
    IF FieldsOk(review_data)
    THEN [ok |-> TRUE, review |-> <<convert_float_scores(Typed(review_data))>>]
    ELSE [ok |-> FALSE, review |-> <<>>]

(* ----------------------- safe_validate_reviews ------------------------ *)
RECURSIVE ValidateLoop(_, _, _, _)
ValidateLoop(data, i, validated_reviews, error_count) ==
    IF i > Len(data)
    THEN [validated_reviews |-> validated_reviews, error_count |-> error_count]
    ELSE LET res == model_validate(data[i])
         IN  IF res.ok
             THEN ValidateLoop(data, i + 1, validated_reviews \o res.review, error_count)
             ELSE ValidateLoop(data, i + 1, validated_reviews, error_count + 1)

\* a loop that gives up at the first record that fails to type
RECURSIVE ValidateLoop_stop(_, _, _, _)
ValidateLoop_stop(data, i, validated_reviews, error_count) ==
    IF i > Len(data)
    THEN [validated_reviews |-> validated_reviews, error_count |-> error_count]
    ELSE LET res == model_validate(data[i])
         IN  IF res.ok
             THEN ValidateLoop_stop(data, i + 1, validated_reviews \o res.review, error_count)
             ELSE [validated_reviews |-> validated_reviews, error_count |-> error_count + 1]

safe_validate_reviews_stop(data) ==
    LET out == ValidateLoop_stop(data, 1, <<>>, 0)
    IN  IF TooManyErrors(out.error_count, Len(data))
        THEN [raised |-> TRUE, reviews |-> <<>>, error_count |-> out.error_count]
        ELSE [raised |-> FALSE, reviews |-> out.validated_reviews,
              error_count |-> out.error_count]

\* raised = TRUE is the ValueError "Too many validation errors"
safe_validate_reviews(data) ==
    LET out == ValidateLoop(data, 1, <<>>, 0)
    IN  IF TooManyErrors(out.error_count, Len(data))
        THEN [raised |-> TRUE, reviews |-> <<>>, error_count |-> out.error_count]
        ELSE [raised |-> FALSE, reviews |-> out.validated_reviews,
              error_count |-> out.error_count]

(* ------------------------ prepare_review_text ------------------------- *)
NL == Tok("nl", "", 0)
Text(str) == Tok("str", str, 0)

\* an f-string field: str(value)
Fmt(v) == IF v.t = "None" THEN Text("None") ELSE v

RECURSIVE JoinNames(_, _)
JoinNames(names, i) ==
    IF i > Len(names) THEN <<>>
    ELSE (IF i > 1 THEN <<Text(", ")>> ELSE <<>>) \o <<Text(names[i])>> \o JoinNames(names, i + 1)

\* publishedDate.strftime('%Y-%m-%d')
Strftime(dt) == Tok("date", "", dt.n)

SeparatorWidth == 80

\* the ten text parts appended for one review
ReviewParts(review) ==
    << <<Text("Game Review: "), Fmt(review.game), NL>>,
       <<Text("Title: "), Fmt(review.title), NL>>,
       <<Text("Outlet: "), Fmt(review.Outlet), NL>>,
       <<Text("Author(s): ")>> \o JoinNames(review.Authors, 1) \o <<NL>>,
       <<Text("Published: "), Strftime(review.publishedDate), NL>>,
       <<Text("Platform(s): ")>> \o JoinNames(review.Platforms, 1) \o <<NL>>,
       <<Text("Score: "), Fmt(review.score), Text(" ("), Fmt(review.scoreDisplay), Text(")"), NL>>,
       <<Text("Review Text: "), Fmt(review.snippet), NL>>,
       <<Text("URL: "), Fmt(review.externalUrl), NL>>,
       <<Tok("rule", "-", SeparatorWidth), NL>> >>

RECURSIVE TextParts(_, _)
TextParts(reviews, i) ==
    IF i > Len(reviews) THEN <<>> ELSE ReviewParts(reviews[i]) \o TextParts(reviews, i + 1)

\* "\n".join(text_parts)
RECURSIVE JoinNL(_, _)
JoinNL(text_parts, i) ==
    IF i > Len(text_parts) THEN <<>>
    ELSE (IF i > 1 THEN <<NL>> ELSE <<>>) \o text_parts[i] \o JoinNL(text_parts, i + 1)

(* ------------------------------ inputs -------------------------------- *)
Ids == {"9136", "14353"}          \* game ids, as the URL paths of the input file give them

MkRaw(game, date, score, npScore, authors, platforms) ==
    [k \in KeySet |->
        CASE k = "game" -> JStr(game)
          [] k = "title" -> IF game = "Hades" THEN JStr("Hades review") ELSE JNull
          [] k = "Outlet" -> JStr("IGN")
          [] k = "Authors" -> JList(authors)
          [] k = "publishedDate" -> JStr(date)
          [] k = "Platforms" -> JList(platforms)
          [] k = "score" -> score
          [] k = "npScore" -> npScore
          [] k = "scoreDisplay" -> IF score.t = "null" THEN JNull ELSE JStr("x / 100")
          [] k = "snippet" -> JStr("A triumph.")
          [] OTHER -> JStr("https://example.com/review")]

GoodRec == MkRaw("Hades", "2023-08-03T04:00:00.000Z", JFloat(879), JInt(88),
                 <<"Ann", "Bob">>, <<"PS5", "PC">>)
OtherRec == MkRaw("Celeste", "2020-09-17T23:30:00.000Z", JNull, JNull, <<"Bob", "Ann">>, <<>>)
BadDateRec == MkRaw("Hades", "yesterday", JInt(90), JInt(90), <<"Ann">>, <<"PC">>)
FracNpRec == MkRaw("Hades", "2023-08-03T04:00:00.000Z", JInt(88), JFloat(879),
                   <<"Ann">>, <<"PC">>)
NegScoreRec == MkRaw("Celeste", "2020-09-17T23:30:00.000Z", JFloat(-879), JFloat(880),
                     <<>>, <<"PC", "PS5">>)
NoNpRec == MkRaw("Celeste", "2023-08-03T04:00:00.000Z", JInt(70), JMissing, <<"Bob">>, <<>>)

RawRecords == {GoodRec, OtherRec, BadDateRec, FracNpRec, NegScoreRec, NoNpRec}

SeqsUpTo(S, n) == UNION {[1..k -> S] : k \in 0..n}

\* what the remote source may serve for a game: no review, a review that
\* types, a review that does not
RemotePayloads == {<<>>, <<GoodRec>>, <<BadDateRec>>}
HttpOk == 200
HttpErrors == {404, 503}
Responses == {[status |-> HttpOk, body |-> p] : p \in RemotePayloads}
                 \cup {[status |-> s, body |-> <<>>] : s \in HttpErrors}

\* payloads given to the validator on its own: long ones of reviews that type
\* or do not, short ones of every shape, and long ones with one review that
\* does not type (at b) and one of another game (at o)
MinMarked == 10
MarkedPayloads ==
    {[i \in 1..n |-> IF i = b THEN BadDateRec ELSE IF i = o THEN OtherRec ELSE GoodRec] :
        n \in MinMarked..MaxBatch, b \in 1..MaxBatch, o \in 1..MaxBatch}
ValidatorInputs == SeqsUpTo({GoodRec, BadDateRec}, MaxBatch) \cup SeqsUpTo(RawRecords, MaxMixed)
                      \cup MarkedPayloads

(* ------------------------------- state -------------------------------- *)
VARIABLES
    cache,          \* the cache directory: game id -> text of <id>.json, NoFile if absent
    game_ids,       \* main: the list extract_game_ids returned
    idx,            \* main: position of the loop in game_ids
    pc,             \* main: "fetch", "prepare", "insert", "done", or "crashed"
    reviews,        \* main: the reviews fetch_game_reviews returned
    review_text,    \* main: the text prepare_review_text returned
    exc,            \* main: the exception that left main, "" if none
    calls,          \* history: per game id, the last two fetch calls since the last wipe
    memo,           \* history: one earlier prepare_review_text call, input and output
    v_pc, v_data, v_out, v_text,    \* the validator and normalizer applied to one payload
    w_pc,           \* the completion wrapper: "idle", "returned" or "raised"
    w_args,         \* the arguments of its last invocation
    w_backend,      \* what gpt_4o_mini_complete did in that invocation
    w_run           \* what the wrapper did: backend calls, log, events, result

vars == <<cache, game_ids, idx, pc, reviews, review_text, exc, calls, memo,
          v_pc, v_data, v_out, v_text, w_pc, w_args, w_backend, w_run>>
wrapVars == <<w_pc, w_args, w_backend, w_run>>
driverVars == <<cache, game_ids, idx, pc, reviews, review_text, exc, calls, memo>>
pureVars == <<v_pc, v_data, v_out, v_text>>

NoFile == <<>>

\* a rendering that also stamps the position of the run into the text
prepare_review_text_stamped(revs) ==
    JoinNL(TextParts(revs, 1), 1) \o <<Tok("int", "", idx)>>

\* a rendering that forgets to walk the list: only the first review is rendered
prepare_review_text_first(revs) ==
    IF revs = <<>> THEN <<>> ELSE JoinNL(ReviewParts(revs[1]), 1)

prepare_review_text(revs) == JoinNL(TextParts(revs, 1), 1)

(* ------------------------- fetch_game_reviews ------------------------- *)
\* One call, as a function of the cache directory, the game id and the answer
\* the remote source would give.  The result holds the cache directory the
\* call leaves, what it returned or raised, and what it did on the way.
CallResult(files, hit, requests, writes, status, got, data, raised, revs) ==
    [cache |-> files, hit |-> hit, requests |-> requests, writes |-> writes,
     status |-> status, got |-> got, data |-> data, raised |-> raised, reviews |-> revs]

FromCache(files, game_id) ==
    LET data == json_load(files[game_id])
        v == safe_validate_reviews(data)
    IN  CallResult(files, TRUE, 0, 0, 0, TRUE, data,
                   IF v.raised THEN "ValueError" ELSE "", v.reviews)

FromRemote(files, game_id, resp, hit) ==
    IF resp.status >= 400                                  \* response.raise_for_status()
    THEN CallResult(files, hit, 1, 0, resp.status, FALSE, <<>>, "HTTPError", <<>>)
    ELSE LET data == resp.body                             \* response.json()
             v == safe_validate_reviews(data)
         IN  CallResult([files EXCEPT ![game_id] = json_dump(data)], hit, 1, 1,
                        resp.status, TRUE, data,
                        IF v.raised THEN "ValueError" ELSE "", v.reviews)

\* a fetch that never looks into the cache
fetch_game_reviews_remote(files, game_id, resp) ==
    FromRemote(files, game_id, resp, files[game_id] # NoFile)

\* a fetch that caches a payload only once it has validated
fetch_game_reviews_valid(files, game_id, resp) ==
    IF files[game_id] # NoFile THEN FromCache(files, game_id)
    ELSE LET r == FromRemote(files, game_id, resp, FALSE)
         IN  IF r.raised = "ValueError" THEN [r EXCEPT !.cache = files, !.writes = 0] ELSE r

\* a fetch that answers a rejected payload with no reviews instead of raising
fetch_game_reviews_lenient(files, game_id, resp) ==
    LET r == IF files[game_id] # NoFile THEN FromCache(files, game_id)
             ELSE FromRemote(files, game_id, resp, FALSE)
    IN  IF r.raised = "ValueError" THEN [r EXCEPT !.raised = ""] ELSE r

\* a fetch that asks the remote source again when the cached payload is rejected
fetch_game_reviews_refetch(files, game_id, resp) ==
    IF files[game_id] # NoFile /\ FromCache(files, game_id).raised = ""
    THEN FromCache(files, game_id)
    ELSE FromRemote(files, game_id, resp, files[game_id] # NoFile)

\* a fetch that asks a second time when the remote source refuses
fetch_game_reviews_retry(files, game_id, resp) ==
    IF files[game_id] # NoFile THEN FromCache(files, game_id)
    ELSE LET r == FromRemote(files, game_id, resp, FALSE)
         IN  IF r.raised = "HTTPError" THEN [r EXCEPT !.requests = 2] ELSE r

\* a fetch that removes a cache file whose payload is rejected
fetch_game_reviews_evict(files, game_id, resp) ==
    IF files[game_id] # NoFile
    THEN LET r == FromCache(files, game_id)
         IN  IF r.raised = "ValueError"
             THEN [r EXCEPT !.cache = [files EXCEPT ![game_id] = NoFile]] ELSE r
    ELSE FromRemote(files, game_id, resp, FALSE)

fetch_game_reviews(files, game_id, resp) ==
    IF files[game_id] # NoFile                             \* cache_file.exists()
    THEN FromCache(files, game_id)
    ELSE FromRemote(files, game_id, resp, FALSE)

(* ------------------------------- main --------------------------------- *)
NoMemo == [set |-> FALSE, at |-> 0, input |-> <<>>, output |-> <<>>]
NoOut == [raised |-> FALSE, reviews |-> <<>>, error_count |-> 0]

\* where the loop stands once game_ids is known
LoopAt(ids, i) == IF i > Len(ids) THEN "done" ELSE "fetch"

InitPure == v_pc = "idle" /\ v_data = <<>> /\ v_out = NoOut /\ v_text = <<>>

NoArgs == [prompt |-> "", system_prompt |-> "", history_messages |-> <<>>,
           keyword_extraction |-> FALSE]
NoBackend == [ok |-> TRUE, text |-> "", error |-> ""]
NoRun == [calls |-> <<>>, log |-> <<>>, events |-> <<>>, raised |-> "", value |-> ""]
InitWrap == w_pc = "idle" /\ w_args = NoArgs /\ w_backend = NoBackend /\ w_run = NoRun

Init ==
    /\ cache = [id \in Ids |-> NoFile]
    /\ game_ids \in SeqsUpTo(Ids, MaxIds)
    /\ idx = 1
    /\ pc = LoopAt(game_ids, 1)
    /\ reviews = <<>>
    /\ review_text = <<>>
    /\ exc = ""
    /\ calls = [id \in Ids |-> <<>>]
    /\ memo = NoMemo
    /\ InitPure
    /\ InitWrap

\* the remote source answers only when asked: a call served from the cache
\* draws no answer
NoAnswer == [status |-> 0, body |-> <<>>]
Answers(files, game_id) == IF files[game_id] # NoFile THEN {NoAnswer} ELSE Responses

LastTwo(log, c) == IF Len(log) < 2 THEN Append(log, c) ELSE <<log[2], c>>

\* reviews = fetch_game_reviews(game_id, args.cache_dir); an exception leaves main
Fetch ==
    /\ pc = "fetch"
    /\ \E resp \in Answers(cache, game_ids[idx]) :
       \E r \in {fetch_game_reviews(cache, game_ids[idx], resp)} :
          LET game_id == game_ids[idx]
              c == [hit |-> r.hit, requests |-> r.requests, writes |-> r.writes,
                    got |-> r.got, data |-> r.data, refused |-> resp.status >= 400,
                    received |-> IF r.requests > 0 /\ r.got THEN resp.body ELSE <<>>,
                    before |-> cache[game_id], file |-> r.cache[game_id],
                    others |-> \A o \in Ids \ {game_id} : r.cache[o] = cache[o],
                    raised |-> r.raised]
          IN  /\ cache' = r.cache
              /\ calls' = [calls EXCEPT ![game_id] = LastTwo(@, c)]
              /\ IF r.raised # ""
                 THEN pc' = "crashed" /\ exc' = r.raised /\ reviews' = reviews
                 ELSE pc' = "prepare" /\ exc' = exc /\ reviews' = r.reviews
    /\ UNCHANGED <<game_ids, idx, review_text, memo, pureVars, wrapVars>>

\* review_text = prepare_review_text(reviews)
Prepare ==
    /\ pc = "prepare"
    /\ review_text' = prepare_review_text(reviews)
    /\ pc' = "insert"
    /\ memo' \in {memo, [set |-> TRUE, at |-> idx, input |-> reviews,
                         output |-> review_text']}
    /\ UNCHANGED <<cache, game_ids, idx, reviews, exc, calls, pureVars, wrapVars>>

\* await rag.ainsert(review_text): the knowledge store takes the text, or raises
Insert ==
    /\ pc = "insert"
    /\ \E ok \in BOOLEAN :
          IF ok THEN /\ idx' = idx + 1
                     /\ pc' = LoopAt(game_ids, idx + 1)
                     /\ exc' = exc
                ELSE /\ idx' = idx
                     /\ pc' = "crashed"
                     /\ exc' = "InsertError"
    /\ UNCHANGED <<cache, game_ids, reviews, review_text, calls, memo, pureVars, wrapVars>>

\* the script is started again on another input file; the cache directory stays
StartRun ==
    /\ pc \in {"done", "crashed"}
    /\ \E ids \in SeqsUpTo(Ids, MaxIds) :
          /\ game_ids' = ids
          /\ pc' = LoopAt(ids, 1)
    /\ idx' = 1
    /\ reviews' = <<>>
    /\ review_text' = <<>>
    /\ exc' = ""
    /\ UNCHANGED <<cache, calls, memo, pureVars, wrapVars>>

\* the operator wipes the cache directory
Wipe ==
    /\ \E id \in Ids : cache[id] # NoFile
    /\ cache' = [id \in Ids |-> NoFile]
    /\ calls' = [id \in Ids |-> <<>>]
    /\ UNCHANGED <<game_ids, idx, pc, reviews, review_text, exc, memo, pureVars, wrapVars>>

Next == Fetch \/ Prepare \/ Insert \/ StartRun \/ Wipe

Spec == Init /\ [][Next]_vars

(* ------------- the validator and the normalizer on their own ---------- *)
InitDriverOff ==
    /\ cache = [id \in Ids |-> NoFile]
    /\ game_ids = <<>>
    /\ idx = 1
    /\ pc = "done"
    /\ reviews = <<>>
    /\ review_text = <<>>
    /\ exc = ""
    /\ calls = [id \in Ids |-> <<>>]
    /\ memo = NoMemo

InitValidate ==
    /\ InitDriverOff
    /\ InitWrap
    /\ v_pc = "input"
    /\ v_data \in ValidatorInputs
    /\ v_out = NoOut
    /\ v_text = <<>>

\* safe_validate_reviews(data)
Validate ==
    /\ v_pc = "input"
    /\ v_out' = safe_validate_reviews(v_data)
    /\ v_pc' = IF v_out'.raised THEN "rejected" ELSE "validated"
    /\ UNCHANGED <<v_data, v_text, driverVars, wrapVars>>

\* prepare_review_text(reviews)
Normalize ==
    /\ v_pc = "validated"
    /\ v_text' = prepare_review_text(v_out.reviews)
    /\ v_pc' = "normalized"
    /\ UNCHANGED <<v_data, v_out, driverVars, wrapVars>>

NextValidate == Validate \/ Normalize

SpecValidate == InitValidate /\ [][NextValidate]_vars

(* ------------------ gpt4o_mini_complete_with_retries ------------------ *)
Prompts == {"", "Hi", "Extract entities from the text"}
SystemPrompts == {"", "You are a helpful assistant"}
Histories == {<<>>, <<"earlier turn">>}
BackendErrors == {"RateLimitError", "APIConnectionError", "APITimeoutError"}
Backends == {[ok |-> TRUE, text |-> t, error |-> ""] : t \in {"", "(entity|Hades)"}}
               \cup {[ok |-> FALSE, text |-> "", error |-> e] : e \in BackendErrors}

\* the keyword arguments the wrapper adds to the backend call
OpenAIMaxRetries == 0
BackendCall(a) ==
    [prompt |-> a.prompt, system_prompt |-> a.system_prompt,
     history_messages |-> a.history_messages, keyword_extraction |-> a.keyword_extraction,
     max_retries |-> OpenAIMaxRetries]

\* the log.error line of the except branch
Diagnostic(a) ==
    [tokens |-> Len(a.prompt) \div 4, system_prompt |-> a.system_prompt,
     history_messages |-> a.history_messages, keyword_extraction |-> a.keyword_extraction]

\* a wrapper that logs the failure and answers with an empty completion
gpt4o_mini_complete_quiet(a, backend) ==
    IF backend.ok
    THEN [calls |-> <<BackendCall(a)>>, log |-> <<>>, events |-> <<"call", "return">>,
          raised |-> "", value |-> backend.text]
    ELSE [calls |-> <<BackendCall(a)>>, log |-> <<Diagnostic(a)>>,
          events |-> <<"call", "log", "return">>, raised |-> "", value |-> ""]

\* a wrapper that tries the backend a second time when it fails
gpt4o_mini_complete_again(a, backend) ==
    IF backend.ok
    THEN [calls |-> <<BackendCall(a)>>, log |-> <<>>, events |-> <<"call", "return">>,
          raised |-> "", value |-> backend.text]
    ELSE [calls |-> <<BackendCall(a), BackendCall(a)>>, log |-> <<Diagnostic(a)>>,
          events |-> <<"call", "call", "log", "raise">>, raised |-> backend.error,
          value |-> ""]

\* one invocation: a the arguments, backend what gpt_4o_mini_complete does
gpt4o_mini_complete_with_retries(a, backend) ==
    IF backend.ok
    THEN [calls |-> <<BackendCall(a)>>, log |-> <<>>, events |-> <<"call", "return">>,
          raised |-> "", value |-> backend.text]
    ELSE [calls |-> <<BackendCall(a)>>, log |-> <<Diagnostic(a)>>,
          events |-> <<"call", "log", "raise">>, raised |-> backend.error, value |-> ""]

InitWrapper ==
    /\ InitDriverOff
    /\ InitPure
    /\ InitWrap

\* the knowledge store invokes llm_model_func
Complete ==
    /\ \E prompt \in Prompts, system_prompt \in SystemPrompts, history \in Histories,
          keyword_extraction \in BOOLEAN, backend \in Backends :
          /\ w_args' = [prompt |-> prompt, system_prompt |-> system_prompt,
                        history_messages |-> history,
                        keyword_extraction |-> keyword_extraction]
          /\ w_backend' = backend
          /\ w_run' = gpt4o_mini_complete_with_retries(w_args', backend)
          /\ w_pc' = IF w_run'.raised # "" THEN "raised" ELSE "returned"
    /\ UNCHANGED <<driverVars, pureVars>>

NextWrapper == Complete

SpecWrapper == InitWrapper /\ [][NextWrapper]_vars

(* ------------------------------ properties ---------------------------- *)
\* where the entity id at position i of the run stands
Status(i) ==
    IF i < idx THEN "Delivered"
    ELSE IF i > idx THEN "Pending"
    ELSE CASE pc = "fetch" -> "Pending"
           [] pc = "prepare" -> "Validated"
           [] pc = "insert" -> "Normalized"
           [] pc = "crashed" -> "Failed"
           [] OTHER -> "Delivered"

RunEnded == pc \in {"done", "crashed"}
Positions == 1..Len(game_ids)

\* C1: entity-id isolation: when the run has ended, every entity id listed after
\* one that failed has been processed (is Delivered or Failed).
C1_EntityIdIsolation ==
    RunEnded =>
        \A i \in Positions : Status(i) = "Failed" =>
            \A j \in (i + 1)..Len(game_ids) : Status(j) \in {"Delivered", "Failed"}

\* every fetch call the history holds, with its game id
CallRecords == UNION {{calls[id][k] : k \in 1..Len(calls[id])} : id \in Ids}

TwoCalls(id) == Len(calls[id]) = 2

\* C2 as stated: two consecutive calls of fetch(id) with no wipe in between issue
\* at most one remote request in total and both obtain the identical payload.
C2_AnyTwoCalls ==
    \A id \in Ids : TwoCalls(id) =>
        /\ calls[id][1].requests + calls[id][2].requests <= 1
        /\ calls[id][1].got /\ calls[id][2].got
        /\ calls[id][1].data = calls[id][2].data

\* C2 amended: when the first of two consecutive calls of fetch(id) with no wipe in
\* between has obtained a payload, the two calls issue at most one remote request
\* in total and the second obtains the identical payload (read back from the cache).
C2_CacheIdempotence ==
    \A id \in Ids : TwoCalls(id) /\ calls[id][1].got =>
        /\ calls[id][1].requests + calls[id][2].requests <= 1
        /\ calls[id][2].got
        /\ calls[id][2].data = calls[id][1].data

C2_Witness ==
    \E id \in Ids : /\ TwoCalls(id)
                    /\ calls[id][1].requests = 1 /\ calls[id][1].got
                    /\ calls[id][1].data = <<GoodRec>>
                    /\ calls[id][2].requests = 0 /\ calls[id][2].got

\* C3: a fetch of an id that has a cache entry issues no remote request, writes
\* nothing, and leaves the whole cache as it was.
C3_CacheHitShortCircuit ==
    \A c \in CallRecords : c.before # NoFile =>
        c.requests = 0 /\ c.writes = 0 /\ c.file = c.before /\ c.others

C3_Witness == \E c \in CallRecords : c.before # NoFile /\ c.got

\* C4 as stated: every fetch that misses the cache performs exactly one cache
\* write, which stores the received payload under the id.
C4_EveryMissWrites ==
    \A c \in CallRecords : c.before = NoFile =>
        c.writes = 1 /\ c.file # NoFile /\ json_load(c.file) = c.received

\* C4 amended: every fetch that misses the cache and whose remote request succeeds
\* performs exactly one cache write, which stores the received payload under the
\* id before the fetch returns or raises on validation; a miss whose remote
\* request fails performs no cache write.
C4_MissWritesOnce ==
    \A c \in CallRecords : c.before = NoFile =>
        IF c.raised = "HTTPError"
        THEN c.writes = 0 /\ c.file = NoFile
        ELSE c.writes = 1 /\ c.file # NoFile /\ json_load(c.file) = c.received /\ c.got

C4_Witness ==
    \E c \in CallRecords : c.before = NoFile /\ c.writes = 1 /\ c.raised = "ValueError"

\* the positions of a payload whose record types, and the k-th of them
TypedAt(data) == {i \in 1..Len(data) : model_validate(data[i]).ok}
NthTyped(data, k) ==
    CHOOSE i \in TypedAt(data) : Cardinality({j \in TypedAt(data) : j <= i}) = k
Accepted == v_pc \in {"validated", "normalized"}

\* C5: a payload of n records of which e fail typing is accepted if and only if
\* 10 * e <= n, and a payload that is not accepted is rejected with no record
\* returned.
C5_ValidationThreshold ==
    v_pc # "input" =>
        LET n == Len(v_data)
            e == n - Cardinality(TypedAt(v_data))
        IN  /\ Accepted <=> 10 * e <= n
            /\ ~Accepted => v_pc = "rejected" /\ v_out.raised /\ v_out.reviews = <<>>
            /\ v_out.error_count = e

C5_Witness ==
    /\ v_pc = "validated"
    /\ Len(v_data) = 10
    /\ Cardinality(TypedAt(v_data)) = 9

\* C6: an accepted payload yields exactly the records that typed, in input order,
\* the others omitted: the k-th output record is the typing of the k-th input
\* record that types, wherever the records that fail stand.
C6_ValidatorOrder ==
    Accepted =>
        /\ Len(v_out.reviews) = Cardinality(TypedAt(v_data))
        /\ Len(v_out.reviews) = Len(v_data) - v_out.error_count
        /\ \A k \in 1..Len(v_out.reviews) :
              v_out.reviews[k] = model_validate(v_data[NthTyped(v_data, k)]).review[1]

C6_Witness ==
    /\ v_pc = "validated"
    /\ \E b \in 1..Len(v_data) :
          /\ ~model_validate(v_data[b]).ok
          /\ \E i, j \in 1..Len(v_data) : i < b /\ b < j /\ v_data[i] # v_data[j]

\* a raw score that is a number with a fractional part
Fractional(v) == v.t = "float" /\ v.n % 10 # 0
\* the record types once its two score fields hold integers
TypesButScores(r) ==
    model_validate([r EXCEPT !["score"] = JInt(1), !["npScore"] = JInt(1)]).ok
\* a score field after coercion: numbers truncated toward zero, null kept
Coerced(v) == IF v.t \in {"int", "float"} THEN PyInt(Trunc(v.n)) ELSE PyNone

\* C7: a record whose score or npScore is a number with a fractional part (its
\* other fields typing) validates, with both score fields truncated toward zero.
C7_ScoreCoercion ==
    v_pc # "input" =>
        \A i \in 1..Len(v_data) :
            LET r == v_data[i]
            IN  /\ Fractional(r["score"]) \/ Fractional(r["npScore"])
                /\ r["npScore"].t # "missing"
                /\ TypesButScores(r)
                => /\ model_validate(r).ok
                   /\ model_validate(r).review[1].score = Coerced(r["score"])
                   /\ model_validate(r).review[1].npScore = Coerced(r["npScore"])

\* C7, the score field alone: a score with a fractional part is truncated toward
\* zero and the record validates.
C7_ScoreFieldTruncated ==
    v_pc # "input" =>
        \A i \in 1..Len(v_data) :
            LET r == v_data[i]
            IN  Fractional(r["score"]) /\ model_validate(r).ok
                => model_validate(r).review[1].score = Coerced(r["score"])

IsNL(doc, i) == doc[i].t = "nl"
\* the first line feed at or after from (past the end if there is none)
NextNL(doc, from) ==
    IF \E i \in from..Len(doc) : IsNL(doc, i)
    THEN CHOOSE i \in from..Len(doc) : IsNL(doc, i) /\ \A j \in from..(i - 1) : ~IsNL(doc, j)
    ELSE Len(doc) + 1
\* the k lines that start at from, each one ended by a line feed
RECURSIVE LinesFrom(_, _, _)
LinesFrom(doc, from, k) ==
    IF k = 0 \/ NextNL(doc, from) > Len(doc) THEN <<>>
    ELSE <<SubSeq(doc, from, NextNL(doc, from) - 1)>>
            \o LinesFrom(doc, NextNL(doc, from) + 1, k - 1)
\* where the text stands after k lines from from
RECURSIVE SkipLines(_, _, _)
SkipLines(doc, from, k) ==
    IF k = 0 \/ NextNL(doc, from) > Len(doc) THEN from
    ELSE SkipLines(doc, NextNL(doc, from) + 1, k - 1)

Labels == <<"Game Review: ", "Title: ", "Outlet: ", "Author(s): ", "Published: ",
            "Platform(s): ", "Score: ", "Review Text: ", "URL: ">>
LinesPerBlock == 10
IsName(tok) == tok.s # ", "
NamesOf(line) == [k \in 1..Len(SelectSeq(Tail(line), IsName)) |->
                     SelectSeq(Tail(line), IsName)[k].s]
Shown(v) == IF v.t = "None" THEN "None" ELSE v.s

\* every part ends with a line feed and the join puts another between two
\* parts: two lines per part
LinesPerReview == 2 * LinesPerBlock
\* where each of the next k blocks starts, the first at from
RECURSIVE BlockStarts(_, _, _)
BlockStarts(doc, from, k) ==
    IF k = 0 THEN <<>>
    ELSE <<from>> \o BlockStarts(doc, SkipLines(doc, from, LinesPerReview), k - 1)

\* the lines of one block are the ten lines of the review, in the order of C9
BlockOf(blk, rev, last) ==
    LET L(f) == blk[2 * f - 1]
    IN  \* the join puts no line feed after the last part
        /\ Len(blk) = LinesPerReview - (IF last THEN 1 ELSE 0)
        /\ \A f \in 1..Len(Labels) : blk[2 * f] = <<>>
        /\ \A f \in 1..Len(Labels) : L(f)[1] = Text(Labels[f])
        /\ L(1)[2].s = rev.game.s
        /\ L(2)[2].s = Shown(rev.title)
        /\ L(3)[2].s = rev.Outlet.s
        /\ NamesOf(L(4)) = rev.Authors
        /\ L(5)[2] = Tok("date", "", rev.publishedDate.n)
        /\ NamesOf(L(6)) = rev.Platforms
        /\ L(7)[2] = (IF rev.score.t = "None" THEN Text("None") ELSE rev.score)
        /\ L(8)[2].s = Shown(rev.snippet)
        /\ L(9)[2].s = rev.externalUrl.s
        /\ L(LinesPerBlock) = <<Tok("rule", "-", SeparatorWidth)>>

\* C9: the text of k reviews holds k blocks in review order, each of the ten
\* lines subject name, title, outlet, authors, date, platforms, score, snippet,
\* URL, separator in this order; no review gives the empty text.
C9_NormalizerOrdering ==
    v_pc = "normalized" =>
        IF v_out.reviews = <<>> THEN v_text = <<>>
        ELSE /\ Cardinality({i \in 1..Len(v_text) : IsNL(v_text, i)})
                   = LinesPerReview * Len(v_out.reviews) - 1
             /\ IsNL(v_text, Len(v_text))
             /\ \E starts \in {BlockStarts(v_text, 1, Len(v_out.reviews))} :
                   \A j \in 1..Len(v_out.reviews) :
                       \E blk \in {LinesFrom(v_text, starts[j], LinesPerReview)} :
                           BlockOf(blk, v_out.reviews[j], j = Len(v_out.reviews))

C9_Witness ==
    /\ v_pc = "normalized"
    /\ Len(v_out.reviews) = 2
    /\ v_out.reviews[1].game # v_out.reviews[2].game
    /\ Len(v_out.reviews[1].Authors) = 2

\* C10: when the backend call fails, the wrapper calls it, logs one diagnostic,
\* and then raises that same failure; it returns no value.
C10_WrapperReraises ==
    w_pc # "idle" /\ ~w_backend.ok =>
        /\ w_pc = "raised"
        /\ w_run.raised = w_backend.error
        /\ w_run.events = <<"call", "log", "raise">>
        /\ w_run.log = <<Diagnostic(w_args)>>

C10_Witness ==
    /\ w_pc = "raised"
    /\ w_backend.error = "RateLimitError"
    /\ Len(w_run.log) = 1
    /\ w_run.log[1].tokens > 0

\* the entity ids of the run that the driver can report as succeeded, as failed
Succeeded == Cardinality({i \in Positions : Status(i) = "Delivered"})
Failed == Cardinality({i \in Positions : Status(i) = "Failed"})

\* C11: at the end of a run the succeeded and the failed entity ids together are
\* all the entity ids of the input list: succeeded + failed = len(game_ids).
C11_CountsCoverInput == RunEnded => Succeeded + Failed = Len(game_ids)

\* the moves of the state machine of one entity id
Chain == <<"Pending", "Fetched", "Validated", "Normalized", "Delivered">>
Edges == {<<Chain[k], Chain[k + 1]>> : k \in 1..(Len(Chain) - 1)}
             \cup {<<Chain[k], "Failed">> : k \in 1..(Len(Chain) - 1)}
\* a payload the validator must reject: more than one record in ten fails to type
Rejected(data) == 10 * (Len(data) - Cardinality(TypedAt(data))) > Len(data)
\* the fetch call a step has just made for the entity id at position i
LastCall(i) == calls'[game_ids[i]][Len(calls'[game_ids[i]])]
\* a step in which the fetch call of position i ran
FetchRan(i) == i = idx /\ pc = "fetch" /\ pc' # "fetch"
\* the states position i passes in a step: one fetch call obtains the payload
\* (Fetched) and then validates it
Passed(i) ==
    IF FetchRan(i)
    THEN <<"Pending">> \o (IF LastCall(i).got THEN <<"Fetched">> ELSE <<>>) \o <<Status(i)'>>
    ELSE <<Status(i), Status(i)'>>
\* the fetch of position i obtained a payload the validator accepts, and the
\* driver holds the reviews of that payload
FetchedAndValidated(i) ==
    /\ LastCall(i).got
    /\ ~Rejected(LastCall(i).data)
    /\ reviews' = safe_validate_reviews(LastCall(i).data).reviews
\* nothing is under way or done at a position before every earlier one is terminal
InOrder ==
    \A i \in Positions : Status(i) # "Pending" =>
        \A j \in 1..(i - 1) : Status(j) \in {"Delivered", "Failed"}

\* C12: within a run every entity id moves only along Pending -> Fetched ->
\* Validated -> Normalized -> Delivered or from a non-terminal state to Failed;
\* it reaches the insert only through a fetch that obtained a payload and a
\* validation that accepted it; Delivered and Failed are left by no step; and no
\* id is started before every earlier id of the list is terminal.
C12_DriverStateMachine ==
    [][~RunEnded =>
          /\ game_ids' = game_ids
          /\ \A i \in Positions :
                /\ \A k \in 1..(Len(Passed(i)) - 1) :
                      \/ Passed(i)[k] = Passed(i)[k + 1] /\ ~FetchRan(i)
                      \/ <<Passed(i)[k], Passed(i)[k + 1]>> \in Edges
                /\ FetchRan(i) /\ Status(i)' # "Failed" =>
                      Status(i)' = "Validated" /\ FetchedAndValidated(i)
                /\ Status(i)' = "Normalized" /\ Status(i) # "Normalized" =>
                      Status(i) = "Validated" /\ reviews' = reviews
                /\ Status(i)' = "Delivered" /\ Status(i) # "Delivered" =>
                      Status(i) = "Normalized"
          /\ InOrder /\ InOrder']_vars

C12_Witness ==
    /\ Len(game_ids) = 2
    /\ game_ids[1] # game_ids[2]
    /\ Status(1) = "Delivered"
    /\ Status(2) = "Normalized"
    /\ reviews # <<>>

\* C13: a fetch that obtains a payload with more than one record in ten failing
\* raises the validation error with the payload cached as received, the cache
\* file stays, and the next fetch of that id (no wipe in between) is served from
\* that file, issues no remote request and raises the validation error again.
C13_RejectedPayloadSticks ==
    \A id \in Ids : \A k \in 1..Len(calls[id]) :
        LET c == calls[id][k]
        IN  c.got /\ Rejected(c.data) =>
                /\ c.raised = "ValueError"
                /\ c.file # NoFile /\ json_load(c.file) = c.data
                /\ c.requests > 0 => c.received = c.data /\ c.writes = 1
                /\ cache[id] = c.file
                /\ k < Len(calls[id]) =>
                      /\ calls[id][k + 1].before = c.file
                      /\ calls[id][k + 1].requests = 0
                      /\ calls[id][k + 1].writes = 0
                      /\ calls[id][k + 1].raised = "ValueError"

C13_Witness ==
    \E id \in Ids : /\ TwoCalls(id)
                    /\ calls[id][1].requests = 1 /\ Rejected(calls[id][1].data)
                    /\ calls[id][2].hit /\ calls[id][2].raised = "ValueError"
                    /\ exc = "ValueError"

\* C14: a fetch that misses the cache and is answered with a non-success status
\* issues exactly one remote request, raises the HTTP error, writes nothing and
\* leaves the cache as it was: no file for the id, the other files untouched.
C14_RemoteFailure ==
    \A c \in CallRecords : c.before = NoFile /\ c.refused =>
        /\ c.requests = 1
        /\ c.raised = "HTTPError"
        /\ ~c.got
        /\ c.writes = 0 /\ c.file = NoFile /\ c.others

C14_Witness ==
    /\ pc = "crashed" /\ exc = "HTTPError"
    /\ Len(calls[game_ids[idx]]) > 0
    /\ \E c \in {calls[game_ids[idx]][Len(calls[game_ids[idx]])]} :
          c.before = NoFile /\ c.refused /\ c.requests = 1
    /\ \E o \in Ids : cache[o] # NoFile

\* a step of the operator's wipe: the cache is emptied and the run does not move
IsWipe ==
    /\ cache' = [id \in Ids |-> NoFile]
    /\ UNCHANGED <<game_ids, idx, pc, reviews, review_text, exc>>

\* C15: no step but a wipe changes or removes a cache file that exists, and a
\* step that creates one is the fetch of that very id.
C15_CachePermanence ==
    [][~IsWipe =>
          \A id \in Ids :
              /\ cache[id] # NoFile => cache'[id] = cache[id]
              /\ cache'[id] # cache[id] => pc = "fetch" /\ id = game_ids[idx]]_vars

C15_Witness ==
    \E a \in Ids, b \in Ids :
        /\ a # b
        /\ cache[a] # NoFile /\ cache[b] # NoFile
        /\ TwoCalls(a) /\ calls[a][1].writes = 1 /\ calls[a][2].file = calls[a][1].file
        /\ Len(calls[b]) > 0 /\ calls[b][1].writes = 1
        /\ cache[a] = calls[a][1].file
        /\ pc = "done"

\* C16: every invocation of the wrapper, returning or raising, has called the
\* backend exactly once, with the arguments it was given and max_retries = 0.
C16_WrapperCallsOnce ==
    w_pc # "idle" =>
        /\ Len(w_run.calls) = 1
        /\ Cardinality({k \in 1..Len(w_run.events) : w_run.events[k] = "call"}) = 1
        /\ w_run.calls[1].prompt = w_args.prompt
        /\ w_run.calls[1].max_retries = 0

C16_Witness ==
    /\ w_pc = "raised"
    /\ w_backend.error = "APITimeoutError"
    /\ Len(w_run.calls) = 1
    /\ w_run.calls[1].max_retries = 0

====
